---------------------------- MODULE Spec2Model ----------------------------
(***************************************************************************)
(* A model of bnk-tools: the soundbank patcher (SoundBankPatcher.py) and   *)
(* the event-to-audio resolver (events_parser.py).                         *)
(*                                                                         *)
(* Bank files are sequences of bytes (0..255).  Parsing and serialising    *)
(* are done on those bytes, as the code does them.                         *)
(***************************************************************************)
EXTENDS Integers, Sequences, FiniteSets, TLC

VARIABLES
    \* ---- SoundBankPatcher.py ----
    file,            \* the bytes of the input bank (bnk_file on disk)
    endian,          \* WwiseSoundbank.endian: "<" or ">"
    caller,          \* who drives the object: "patch" (patch_soundbank) or "api"
    pc,              \* "start", "loaded", "saved", "exit"
    sections,        \* WwiseSoundbank.sections: tag name -> payload
    audio_entries,   \* WwiseSoundbank.audio_entries: sequence of AudioEntry
    data_offset,     \* WwiseSoundbank._data_offset (NoAttr while unset)
    data_size,       \* WwiseSoundbank._data_size (NoAttr while unset)
    trailing_data,   \* WwiseSoundbank._trailing_data
    fs,              \* the replacement files on disk: path -> status
    output,          \* the output bank on disk: NoFile or its bytes
    sink,            \* export_audio's output file: NoFile or its bytes
    export_dir,      \* export_all_audio's directory: id -> bytes
    err,             \* the exception the last call raised to its caller, or "none"
    caught,          \* exceptions patch_soundbank caught and printed
    \* ---- events_parser.py ----
    events,          \* BankParser.events: sequence of Event
    actions,         \* BankParser.actions: id -> Action
    sounds,          \* BankParser.sounds: id -> Sound
    containers,      \* BankParser.containers: id -> Container
    audio_files,     \* BankParser.audio_files: the ids read from DIDX
    event_audio_map, \* BankParser.event_audio_map: event id -> audio ids
    lpc,             \* link_audio_to_events: "ready", "event", "done", "raised"
    ev,              \* the position in self.events of the event being linked
    targets,         \* what is left of event.actions to go through
    linked,          \* linked_audio_ids of the event being linked
    stack,           \* the calls of _link_container_children and
                     \* _link_recursive in progress: what is left of the
                     \* children each one goes through, innermost last
    \* ---- events_parser.py: BankParser.parse ----
    hdata,           \* parse: data, the bytes of self.filename
    version,         \* BankParser.version
    ppc,             \* parse: "start", "chunks", "hirc", "parsed", "raised"
    ppos,            \* pos: of parse's loop, or of _parse_hirc's loop
    hend,            \* _parse_hirc: end_pos
    hleft,           \* _parse_hirc: the turns its loop has left
    perr,            \* the exception that left parse, or "none"
    hrec             \* the object record the last turn of _parse_hirc's loop
                     \* went through: its header and the bytes read for it

pvars == <<file, endian, caller, pc, sections, audio_entries, data_offset,
           data_size, trailing_data, fs, output, sink, export_dir, err,
           caught>>

lvars == <<events, actions, sounds, containers, audio_files, event_audio_map,
           lpc, ev, targets, linked, stack>>

hvars == <<hdata, version, ppc, ppos, hend, hleft, perr, hrec>>

vars == <<pvars, lvars, hvars>>

----------------------------------------------------------------------------
(* Bytes, integers and tags *)

\* an attribute that has not been assigned is <<>>, one holding v is <<v>>
NoAttr == <<>>
\* a file on disk that has not been created, and one holding bytes b
NoFile == [exists |-> FALSE, bytes |-> <<>>]
FileOf(b) == [exists |-> TRUE, bytes |-> b]
\* replacement_path = None
NoPath == "None"
\* an empty dict
EmptyDict == [k \in {} |-> <<>>]

Min(a, b) == IF a < b THEN a ELSE b

\* stream.seek(pos); stream.read(n): at most n bytes from 0-based pos
Slice(s, pos, n) == SubSeq(s, pos + 1, Min(pos + n, Len(s)))

RECURSIVE Flatten(_)
Flatten(ss) == IF ss = <<>> THEN <<>> ELSE Head(ss) \o Flatten(Tail(ss))

RECURSIVE SumSeq(_)
SumSeq(s) == IF s = <<>> THEN 0 ELSE Head(s) + SumSeq(Tail(s))

Reverse(s) == [i \in 1..Len(s) |-> s[Len(s) + 1 - i]]

\* struct.pack(f'{endian}I', v).  Every value the model packs is far below
\* 2^32 (the fields of the input banks are small), so pack never raises.
PackU32(e, v) ==
    LET le == <<v % 256, (v \div 256) % 256, (v \div 65536) % 256,
                (v \div 16777216) % 256>>
    IN  IF e = "<" THEN le ELSE Reverse(le)

\* struct.unpack(f'{endian}I', b)[0] for 4 bytes b
UnpackU32(e, b) ==
    LET le == IF e = "<" THEN b ELSE Reverse(b)
    IN  le[1] + 256 * le[2] + 65536 * le[3] + 16777216 * le[4]

TagBytes(name) ==
    CASE name = "BKHD" -> <<66, 75, 72, 68>>
      [] name = "DIDX" -> <<68, 73, 68, 88>>
      [] name = "DATA" -> <<68, 65, 84, 65>>
      [] name = "HIRC" -> <<72, 73, 82, 67>>
      [] name = "AKBK" -> <<65, 75, 66, 75>>
      [] name = "STID" -> <<83, 84, 73, 68>>

\* magic_bytes.decode('ascii', errors='ignore'): bytes above 127 are dropped
DecodeAscii(b) == SelectSeq(b, LAMBDA x : x < 128)

\* SoundbankSection.serialize
SerializeSection(magic, data, e) ==
    TagBytes(magic) \o PackU32(e, Len(data)) \o data

----------------------------------------------------------------------------
(* WwiseSoundbank._load_soundbank *)

\* the tags _parse_sections recognises
KnownTags == {"BKHD", "DIDX", "DATA"}

\* _parse_sections: the loop from stream position pos, with what it has
\* collected so far in st
RECURSIVE ParseSectionsFrom(_, _, _, _)
ParseSectionsFrom(f, e, pos, st) ==
    LET magic_bytes == Slice(f, pos, 4)
        magic == DecodeAscii(magic_bytes)
        size_bytes == Slice(f, pos + 4, 4)
        size == UnpackU32(e, size_bytes)
        data == Slice(f, pos + 8, size)
    IN  IF Len(magic_bytes) < 4
        THEN \* break; the short read has consumed what was left
             [st EXCEPT !.trailing = <<>>]
        ELSE IF \A t \in KnownTags : magic # TagBytes(t)
        THEN \* seek(-4, 1); break
             [st EXCEPT !.trailing = Slice(f, pos, Len(f))]
        ELSE IF Len(size_bytes) < 4
        THEN [st EXCEPT !.error = "struct.error"]
        ELSE IF magic = TagBytes("DATA")
        THEN [st EXCEPT !.data_offset = <<pos + 8>>,
                        !.data_size = <<size>>,
                        !.trailing = Slice(f, pos + 8 + size, Len(f))]
        ELSE LET name == CHOOSE t \in KnownTags : magic = TagBytes(t)
             IN  ParseSectionsFrom(f, e, pos + 8 + Len(data),
                    [st EXCEPT !.sections =
                        [t \in (DOMAIN st.sections) \cup {name} |->
                            IF t = name THEN data ELSE st.sections[t]]])

ParseSections(f, e) ==
    ParseSectionsFrom(f, e, 0,
        [sections |-> EmptyDict, data_offset |-> NoAttr, data_size |-> NoAttr,
         trailing |-> <<>>, error |-> "none"])

\* _extract_audio_catalog: the entries of a DIDX payload
ExtractAudioCatalog(didx_data, e) ==
    [i \in 1..(Len(didx_data) \div 12) |->
        LET rec == Slice(didx_data, (i - 1) * 12, 12)
        IN  [id     |-> UnpackU32(e, SubSeq(rec, 1, 4)),
             offset |-> UnpackU32(e, SubSeq(rec, 5, 8)),
             size   |-> UnpackU32(e, SubSeq(rec, 9, 12)),
             data   |-> <<>>,
             replacement_path |-> NoPath]]

\* _preload_audio_data: entry.data = the bytes read at _data_offset + offset
PreloadAudioData(f, entries, doff) ==
    [i \in 1..Len(entries) |->
        [entries[i] EXCEPT !.data = Slice(f, doff + entries[i].offset,
                                          entries[i].size)]]

\* _load_soundbank: the three steps, and the exception that ends them
LoadSoundbank(f, e) ==
    LET st == ParseSections(f, e)
        hasIndex == "DIDX" \in DOMAIN st.sections
        catalog == ExtractAudioCatalog(st.sections["DIDX"], e)
    IN  IF st.error # "none"
        THEN st @@ [entries |-> <<>>]
        ELSE IF ~hasIndex
        THEN [st EXCEPT !.error = "ValueError"] @@ [entries |-> <<>>]
        ELSE IF catalog # <<>> /\ st.data_offset = NoAttr
        THEN [st EXCEPT !.error = "AttributeError"] @@ [entries |-> <<>>]
        ELSE st @@ [entries |->
                IF catalog = <<>> THEN catalog
                ELSE PreloadAudioData(f, catalog, st.data_offset[1])]


----------------------------------------------------------------------------
(* The replacement files on disk *)

Paths == {"a.wem", "b.wem", "gone.wem"}

\* what open(path, 'rb').read() returns for a readable file
Content(p) ==
    CASE p = "a.wem" -> <<17, 34, 51>>
      [] p = "b.wem" -> <<>>
      [] OTHER -> <<>>

\* Path.exists()
Exists(fsys, p) == fsys[p] # "missing"

----------------------------------------------------------------------------
(* WwiseSoundbank: replace_audio, export_audio, save *)

\* find_audio_entry: the position of the first entry with this id, 0 for None
FindAudioEntry(entries, audio_id) ==
    IF \E i \in 1..Len(entries) : entries[i].id = audio_id
    THEN CHOOSE i \in 1..Len(entries) :
            /\ entries[i].id = audio_id
            /\ \A j \in 1..(i - 1) : entries[j].id # audio_id
    ELSE 0

\* replace_audio: the entries after the call and the exception it raised
ReplaceAudio(entries, fsys, audio_id, replacement_file) ==
    LET i == FindAudioEntry(entries, audio_id)
    IN  IF i = 0
        THEN [entries |-> entries, error |-> "KeyError"]
        ELSE IF ~Exists(fsys, replacement_file)
        THEN [entries |-> entries, error |-> "FileNotFoundError"]
        ELSE [entries |-> [entries EXCEPT ![i].replacement_path = replacement_file],
              error |-> "none"]

\* AudioEntry.final_size: replacement_path.stat().st_size, or size
\* (stat works on a file that cannot be opened for reading)
FinalSize(entry, fsys) ==
    IF entry.replacement_path # NoPath
    THEN Len(Content(entry.replacement_path))
    ELSE entry.size

\* whether final_size raises: stat() of a file that is gone
FinalSizeRaises(entry, fsys) ==
    entry.replacement_path # NoPath /\ ~Exists(fsys, entry.replacement_path)

\* _rebuild_audio_index from entry i on, with current_offset = off
RECURSIVE RebuildAudioIndexFrom(_, _, _, _, _)
RebuildAudioIndexFrom(entries, fsys, e, i, off) ==
    IF i > Len(entries)
    THEN [bytes |-> <<>>, error |-> "none"]
    ELSE IF FinalSizeRaises(entries[i], fsys)
    THEN [bytes |-> <<>>, error |-> "FileNotFoundError"]
    ELSE LET fsz == FinalSize(entries[i], fsys)
             rest == RebuildAudioIndexFrom(entries, fsys, e, i + 1, off + fsz)
         IN  [bytes |-> PackU32(e, entries[i].id) \o PackU32(e, off)
                          \o PackU32(e, fsz) \o rest.bytes,
              error |-> rest.error]

\* _rebuild_audio_index with the bug of packing entry.offset, the offset the
\* entry had in the input, instead of current_offset
RebuildAudioIndexMutKeepsOffsets(entries, fsys, e) ==
    IF \E i \in 1..Len(entries) : FinalSizeRaises(entries[i], fsys)
    THEN [bytes |-> <<>>, error |-> "FileNotFoundError"]
    ELSE [bytes |-> Flatten([i \in 1..Len(entries) |->
                        PackU32(e, entries[i].id)
                            \o PackU32(e, entries[i].offset)
                            \o PackU32(e, FinalSize(entries[i], fsys))]),
          error |-> "none"]

RebuildAudioIndex(entries, fsys, e) ==
    RebuildAudioIndexFrom(entries, fsys, e, 1, 0)

\* _serialize_audio_data from entry i on
RECURSIVE SerializeAudioDataFrom(_, _, _)
SerializeAudioDataFrom(entries, fsys, i) ==
    IF i > Len(entries)
    THEN [bytes |-> <<>>, error |-> "none"]
    ELSE LET p == entries[i].replacement_path
         IN  IF p # NoPath /\ fsys[p] = "missing"
             THEN [bytes |-> <<>>, error |-> "FileNotFoundError"]
             ELSE IF p # NoPath /\ fsys[p] = "unreadable"
             THEN [bytes |-> <<>>, error |-> "PermissionError"]
             ELSE LET rest == SerializeAudioDataFrom(entries, fsys, i + 1)
                  IN  [bytes |-> (IF p # NoPath THEN Content(p)
                                  ELSE entries[i].data) \o rest.bytes,
                       error |-> rest.error]

\* _serialize_audio_data with the bug of writing a zero byte after every
\* payload
SerializeAudioDataMutPadsEntries(entries, fsys) ==
    LET plain == SerializeAudioDataFrom(entries, fsys, 1)
    IN  IF plain.error # "none" THEN plain
        ELSE [bytes |-> Flatten([i \in 1..Len(entries) |->
                           (IF entries[i].replacement_path # NoPath
                            THEN Content(entries[i].replacement_path)
                            ELSE entries[i].data) \o <<0>>]),
              error |-> "none"]

SerializeAudioData(entries, fsys) == SerializeAudioDataFrom(entries, fsys, 1)

\* save with the bug of not writing self._trailing_data
SaveMutDropsTrailing(secs, entries, trailing, fsys, e) ==
    LET header == IF "BKHD" \in DOMAIN secs
                  THEN SerializeSection("BKHD", secs["BKHD"], e) ELSE <<>>
        didx == RebuildAudioIndex(entries, fsys, e)
        audio == SerializeAudioData(entries, fsys)
    IN  IF didx.error # "none"
        THEN [bytes |-> header, error |-> didx.error]
        ELSE IF audio.error # "none"
        THEN [bytes |-> header \o SerializeSection("DIDX", didx.bytes, e),
              error |-> audio.error]
        ELSE [bytes |-> header \o SerializeSection("DIDX", didx.bytes, e)
                          \o SerializeSection("DATA", audio.bytes, e),
              error |-> "none"]

\* save: what the output file holds when save returns or raises.  The file
\* is opened (and so created) first; every f.write before an exception stays
\* in it, as the with block closes the file on the way out.
Save(secs, entries, trailing, fsys, e) ==
    LET header == IF "BKHD" \in DOMAIN secs
                  THEN SerializeSection("BKHD", secs["BKHD"], e) ELSE <<>>
        didx == RebuildAudioIndex(entries, fsys, e)
        audio == SerializeAudioData(entries, fsys)
    IN  IF didx.error # "none"
        THEN [bytes |-> header, error |-> didx.error]
        ELSE IF audio.error # "none"
        THEN [bytes |-> header \o SerializeSection("DIDX", didx.bytes, e),
              error |-> audio.error]
        ELSE [bytes |-> header \o SerializeSection("DIDX", didx.bytes, e)
                          \o SerializeSection("DATA", audio.bytes, e)
                          \o trailing,
              error |-> "none"]

\* export_audio with the bug of writing the queued replacement's bytes
ExportAudioMutWritesReplacement(entries, audio_id) ==
    LET i == FindAudioEntry(entries, audio_id)
    IN  IF i = 0
        THEN [written |-> FALSE, bytes |-> <<>>, error |-> "KeyError"]
        ELSE [written |-> TRUE,
              bytes |-> IF entries[i].replacement_path # NoPath
                        THEN Content(entries[i].replacement_path)
                        ELSE entries[i].data,
              error |-> "none"]

\* export_audio: what is written to the output path, and the exception
ExportAudio(entries, audio_id) ==
    LET i == FindAudioEntry(entries, audio_id)
    IN  IF i = 0
        THEN [written |-> FALSE, bytes |-> <<>>, error |-> "KeyError"]
        ELSE [written |-> TRUE, bytes |-> entries[i].data, error |-> "none"]

\* export_all_audio: the files of output_dir, by id; a later entry with the
\* same id overwrites the file of an earlier one
ExportAllAudio(entries) ==
    LET ids == {entries[i].id : i \in 1..Len(entries)}
        last(id) == CHOOSE i \in 1..Len(entries) :
                        /\ entries[i].id = id
                        /\ \A j \in (i + 1)..Len(entries) : entries[j].id # id
    IN  [id \in ids |-> entries[last(id)].data]

----------------------------------------------------------------------------
(* The input banks *)

MaxEntries == 2     \* index entries of an input bank

Endians == {"<", ">"}

\* The well-formed index of n entries: entry i has id i and i bytes, and the
\* offsets are the running sums of the sizes.
TilingIndex(n) ==
    [i \in 1..n |-> [id |-> i, offset |-> ((i - 1) * i) \div 2, size |-> i]]

TilingLen(n) == (n * (n + 1)) \div 2

\* its DATA payload: byte j is 0xA0 + j, so that every slice shows its place
TilingData(n) == [j \in 1..TilingLen(n) |-> 160 + j]

\* One defect at entry k of the index:
\*   gap       a padding byte in DATA before entry k's payload
\*   overlap   entry k starts one byte early, inside its predecessor
\*   past_end  entry k runs one byte past the end of DATA
\*   at_end    entry k starts at the end of DATA
\*   dup_id    entry k has the id of entry 1
\*   empty     entry k has size 0
\*   swapped   entries k and k+1 change places in the index
EntryDefects == {"gap", "overlap", "past_end", "at_end", "dup_id", "empty",
                 "swapped"}

DefectIndex(n, defect, k) ==
    LET ix == TilingIndex(n)
    IN  CASE defect = "gap" ->
                [i \in 1..n |-> IF i >= k
                                THEN [ix[i] EXCEPT !.offset = @ + 1] ELSE ix[i]]
          [] defect = "overlap" ->
                [ix EXCEPT ![k].offset = IF @ > 0 THEN @ - 1 ELSE 0]
          [] defect = "past_end" ->
                [ix EXCEPT ![k].size = TilingLen(n) - ix[k].offset + 1]
          [] defect = "at_end" ->
                [ix EXCEPT ![k].offset = TilingLen(n)]
          [] defect = "dup_id" ->
                [ix EXCEPT ![k].id = 1]
          [] defect = "empty" ->
                [ix EXCEPT ![k].size = 0]
          [] defect = "swapped" ->
                [i \in 1..n |-> IF i = k /\ k < n THEN ix[k + 1]
                                ELSE IF i = k + 1 THEN ix[k]
                                ELSE ix[i]]
          [] OTHER -> ix

DefectData(n, defect, k) ==
    LET d == TilingData(n)
        at == TilingIndex(n)[k].offset
    IN  IF defect = "gap"
        THEN SubSeq(d, 1, at) \o <<0>> \o SubSeq(d, at + 1, Len(d))
        ELSE d

DidxPayload(index, e) ==
    Flatten([i \in 1..Len(index) |->
        PackU32(e, index[i].id) \o PackU32(e, index[i].offset)
            \o PackU32(e, index[i].size)])

Chunk(tag, payload, e) == TagBytes(tag) \o PackU32(e, Len(payload)) \o payload

\* what may follow the DATA chunk: nothing, or a chunk with an unknown tag
Trailings(e) == {<<>>, Chunk("STID", <<7>>, e)}

BkhdChunk(e) == Chunk("BKHD", PackU32(e, 140), e)

\* BKHD | DIDX | DATA | trailing, the layout of section 6 of the spec
StdBanks(e) ==
    {BkhdChunk(e) \o Chunk("DIDX", DidxPayload(TilingIndex(n), e), e)
        \o Chunk("DATA", TilingData(n), e) \o t :
        n \in 0..MaxEntries, t \in Trailings(e)}

\* the same with one defect in the index
DefectBanks(e) ==
    UNION {{BkhdChunk(e)
              \o Chunk("DIDX", DidxPayload(DefectIndex(n, d, k), e), e)
              \o Chunk("DATA", DefectData(n, d, k), e) \o t :
              k \in 1..n, d \in EntryDefects, t \in Trailings(e)} :
           n \in 1..MaxEntries}

\* banks whose framing is off: no DATA chunk, no DIDX chunk, a file that
\* ends one byte early (inside the DATA payload or inside the last chunk)
OddBanks(e) ==
    UNION {LET didx == Chunk("DIDX", DidxPayload(TilingIndex(n), e), e)
               data == Chunk("DATA", TilingData(n), e)
               stid == Chunk("STID", <<7>>, e)
               full == BkhdChunk(e) \o didx \o data
           IN  {BkhdChunk(e) \o didx \o stid,
                BkhdChunk(e) \o data,
                SubSeq(full, 1, Len(full) - 1),
                SubSeq(BkhdChunk(e) \o didx, 1, Len(BkhdChunk(e)) + 6)} :
           n \in 0..MaxEntries}

\* DIDX | DATA | trailing for the well-formed index of one entry
IndexAndData(t, e) ==
    Chunk("DIDX", DidxPayload(TilingIndex(1), e), e)
        \o Chunk("DATA", TilingData(1), e) \o t

\* a hierarchy chunk of no objects
HircChunk(e) == Chunk("HIRC", PackU32(e, 0), e)

\* the 12-byte AKBK envelope
AkbkEnvelope == TagBytes("AKBK") \o <<0, 0, 0, 0, 0, 0, 0, 0>>

\* banks with the hierarchy chunk between the header and the index
HircFirstBank(t, e) == BkhdChunk(e) \o HircChunk(e) \o IndexAndData(t, e)

\* banks inside the envelope
EnvelopeBank(t, e) == AkbkEnvelope \o BkhdChunk(e) \o IndexAndData(t, e)

\* banks whose first chunk is not BKHD: the index, or the hierarchy
NoHeaderBanks(e) ==
    {IndexAndData(t, e) : t \in Trailings(e)}
        \cup {HircChunk(e) \o IndexAndData(<<>>, e)}

LayoutBanks(e) ==
    {HircFirstBank(t, e) : t \in Trailings(e)}
        \cup {EnvelopeBank(t, e) : t \in Trailings(e)}
        \cup NoHeaderBanks(e)

InputBanks(e) ==
    StdBanks(e) \cup DefectBanks(e) \cup OddBanks(e) \cup LayoutBanks(e)

----------------------------------------------------------------------------
(* The patcher as a state machine *)

\* BankParser.parse's variables when it is not running
ParseOff ==
    /\ hdata = <<>>
    /\ version = 0
    /\ ppc = "off"
    /\ ppos = 0
    /\ hend = 0
    /\ hleft = 0
    /\ perr = "none"
    /\ hrec = <<>>

\* the resolver's variables while the patcher runs: events_parser.py is
\* another program
LinkOff ==
    /\ events = <<>>
    /\ actions = EmptyDict
    /\ sounds = EmptyDict
    /\ containers = EmptyDict
    /\ audio_files = {}
    /\ event_audio_map = EmptyDict
    /\ lpc = "off"
    /\ ev = 0
    /\ targets = <<>>
    /\ linked = {}
    /\ stack = <<>>

\* the ids callers ask for: those of the index, and one that is in no index
AudioIds == (1..MaxEntries) \cup {999}

Init ==
    /\ caller \in {"patch", "api"}
    /\ endian \in IF caller = "patch" THEN Endians ELSE {"<"}
    /\ file \in InputBanks(endian)
    /\ pc = "start"
    /\ sections = EmptyDict
    /\ audio_entries = <<>>
    /\ data_offset = NoAttr
    /\ data_size = NoAttr
    /\ trailing_data = <<>>
    /\ fs = [p \in Paths |-> IF p = "gone.wem" THEN "missing" ELSE "ok"]
    /\ output = NoFile
    /\ sink = NoFile
    /\ export_dir = EmptyDict
    /\ err = "none"
    /\ caught = {}
    /\ LinkOff
    /\ ParseOff

\* WwiseSoundbank(bnk_file, endian): __init__ and _load_soundbank
Load ==
    /\ pc = "start"
    /\ LET r == LoadSoundbank(file, endian)
       IN  IF r.error = "none"
           THEN /\ pc' = "loaded"
                /\ sections' = r.sections
                /\ audio_entries' = r.entries
                /\ data_offset' = r.data_offset
                /\ data_size' = r.data_size
                /\ trailing_data' = r.trailing
                /\ err' = "none"
           ELSE /\ pc' = "exit"
                /\ err' = r.error
                /\ UNCHANGED <<sections, audio_entries, data_offset, data_size,
                               trailing_data>>
    /\ UNCHANGED <<file, endian, caller, fs, output, sink, export_dir, caught>>
    /\ UNCHANGED <<lvars, hvars>>

\* soundbank.replace_audio(audio_id, path), called on the object directly
ApiReplaceAudio(audio_id, path) ==
    /\ caller = "api"
    /\ pc = "loaded"
    /\ LET r == ReplaceAudio(audio_entries, fs, audio_id, path)
       IN  /\ audio_entries' = r.entries
           /\ err' = r.error
    /\ UNCHANGED <<file, endian, caller, pc, sections, data_offset, data_size,
                   trailing_data, fs, output, sink, export_dir, caught>>
    /\ UNCHANGED <<lvars, hvars>>

\* one turn of patch_soundbank's loop over the replacement plan
PatchReplace(audio_id, path) ==
    /\ caller = "patch"
    /\ pc = "loaded"
    /\ IF Exists(fs, path)
       THEN LET r == ReplaceAudio(audio_entries, fs, audio_id, path)
            IN  /\ audio_entries' = r.entries
                /\ caught' = IF r.error = "none" THEN caught
                             ELSE caught \cup {r.error}
       ELSE UNCHANGED <<audio_entries, caught>>
    /\ UNCHANGED <<file, endian, caller, pc, sections, data_offset, data_size,
                   trailing_data, fs, output, sink, export_dir, err>>
    /\ UNCHANGED <<lvars, hvars>>

\* soundbank.export_audio(audio_id, output_path)
ApiExportAudio(audio_id) ==
    /\ caller = "api"
    /\ pc = "loaded"
    /\ LET r == ExportAudio(audio_entries, audio_id)
       IN  /\ sink' = IF r.written THEN FileOf(r.bytes) ELSE sink
           /\ err' = r.error
    /\ UNCHANGED <<file, endian, caller, pc, sections, audio_entries,
                   data_offset, data_size, trailing_data, fs, output,
                   export_dir, caught>>
    /\ UNCHANGED <<lvars, hvars>>

\* soundbank.export_all_audio(output_dir)
ApiExportAllAudio ==
    /\ caller = "api"
    /\ pc = "loaded"
    /\ export_dir' = ExportAllAudio(audio_entries)
    /\ err' = "none"
    /\ UNCHANGED <<file, endian, caller, pc, sections, audio_entries,
                   data_offset, data_size, trailing_data, fs, output, sink,
                   caught>>
    /\ UNCHANGED <<lvars, hvars>>

\* patch_soundbank before it builds the soundbank: a file of the plan is
\* missing and the answer to "Continue anyway?" is not y
PatchCancelled ==
    /\ caller = "patch"
    /\ pc = "start"
    /\ \E p \in Paths : ~Exists(fs, p)
    /\ pc' = "exit"
    /\ UNCHANGED <<file, endian, caller, sections, audio_entries, data_offset,
                   data_size, trailing_data, fs, output, sink, export_dir,
                   err, caught>>
    /\ UNCHANGED <<lvars, hvars>>

\* patch_soundbank after its loop: soundbank.get_statistics(), which takes
\* the final_size of every entry
GetStatistics ==
    /\ caller = "patch"
    /\ pc = "loaded"
    /\ IF \E i \in 1..Len(audio_entries) : FinalSizeRaises(audio_entries[i], fs)
       THEN pc' = "exit" /\ err' = "FileNotFoundError"
       ELSE pc' = "stats" /\ err' = err
    /\ UNCHANGED <<file, endian, caller, sections, audio_entries, data_offset,
                   data_size, trailing_data, fs, output, sink, export_dir,
                   caught>>
    /\ UNCHANGED <<lvars, hvars>>

\* soundbank.save(output_file): by patch_soundbank after the statistics, or
\* directly
SaveBank ==
    /\ \/ caller = "api" /\ pc = "loaded"
       \/ caller = "patch" /\ pc = "stats"
    /\ LET r == Save(sections, audio_entries, trailing_data, fs, endian)
       IN  /\ output' = FileOf(r.bytes)
           /\ err' = r.error
    /\ pc' = "saved"
    /\ UNCHANGED <<file, endian, caller, sections, audio_entries, data_offset,
                   data_size, trailing_data, fs, sink, export_dir, caught>>
    /\ UNCHANGED <<lvars, hvars>>

\* the replacement file that the environment touches while the patcher runs
Fragile == {"a.wem"}

\* the environment: a replacement file is deleted, or made unreadable
RemoveFile(path) ==
    /\ pc \in {"loaded", "stats"}
    /\ fs[path] = "ok"
    /\ fs' = [fs EXCEPT ![path] = "missing"]
    /\ UNCHANGED <<file, endian, caller, pc, sections, audio_entries,
                   data_offset, data_size, trailing_data, output, sink,
                   export_dir, err, caught>>
    /\ UNCHANGED <<lvars, hvars>>

MakeUnreadable(path) ==
    /\ pc \in {"loaded", "stats"}
    /\ fs[path] = "ok"
    /\ fs' = [fs EXCEPT ![path] = "unreadable"]
    /\ UNCHANGED <<file, endian, caller, pc, sections, audio_entries,
                   data_offset, data_size, trailing_data, output, sink,
                   export_dir, err, caught>>
    /\ UNCHANGED <<lvars, hvars>>

Next ==
    \/ Load
    \/ \E id \in AudioIds, p \in Paths : ApiReplaceAudio(id, p)
    \/ \E id \in AudioIds, p \in Paths : PatchReplace(id, p)
    \/ \E id \in AudioIds : ApiExportAudio(id)
    \/ ApiExportAllAudio
    \/ PatchCancelled
    \/ GetStatistics
    \/ SaveBank
    \/ \E p \in Fragile : RemoveFile(p)
    \/ \E p \in Fragile : MakeUnreadable(p)

Spec == Init /\ [][Next]_vars

----------------------------------------------------------------------------
(* What a bank file holds, read back from its bytes *)

\* the DATA payload of bank f as _parse_sections locates it
DataBlob(f, e) ==
    LET st == ParseSections(f, e)
    IN  IF st.data_offset = NoAttr THEN <<>>
        ELSE Slice(f, st.data_offset[1], st.data_size[1])

\* the index records of bank f: <<id, offset, size>> in index order
IndexOf(f, e) ==
    LET st == ParseSections(f, e)
        ix == ExtractAudioCatalog(st.sections["DIDX"], e)
    IN  [i \in 1..Len(ix) |-> <<ix[i].id, ix[i].offset, ix[i].size>>]

IdsAndSizes(entries) ==
    [i \in 1..Len(entries) |-> <<entries[i].id, entries[i].size>>]

\* the BKHD payload of a parse: <<>> if there is no BKHD chunk
HeaderOf(secs) == IF "BKHD" \in DOMAIN secs THEN <<secs["BKHD"]>> ELSE <<>>

\* the entries cover blob exactly, one after the other
Tiles(entries, blob) ==
    /\ \A i \in 1..Len(entries) :
          entries[i].offset =
              SumSeq([j \in 1..(i - 1) |-> entries[j].size])
    /\ SumSeq([j \in 1..Len(entries) |-> entries[j].size]) = Len(blob)

NothingQueued ==
    \A i \in 1..Len(audio_entries) : audio_entries[i].replacement_path = NoPath

\* save has returned normally: output holds a whole bank
SavedOk == pc = "saved" /\ err = "none"

----------------------------------------------------------------------------
(* C1 *)

\* C1 as stated: a bank saved with nothing queued parses to the same index
\* (ids and sizes in order), the same BKHD payload, the same data blob and
\* the same trailing bytes as the input bank.
C1_RoundTripIdentity ==
    (SavedOk /\ NothingQueued) =>
        LET a == LoadSoundbank(file, endian)
            b == LoadSoundbank(output.bytes, endian)
        IN  /\ b.error = "none"
            /\ IdsAndSizes(b.entries) = IdsAndSizes(a.entries)
            /\ HeaderOf(b.sections) = HeaderOf(a.sections)
            /\ DataBlob(output.bytes, endian) = DataBlob(file, endian)
            /\ b.trailing = a.trailing

\* C1 amended: the index (ids and sizes in order), the BKHD payload and the
\* trailing bytes are those of the input; the data blob is the payloads read
\* for the input's entries, one after the other in index order, which is the
\* input's data blob when the input's entries tile it.
C1_RoundTripAmended ==
    (SavedOk /\ NothingQueued) =>
        LET a == LoadSoundbank(file, endian)
            b == LoadSoundbank(output.bytes, endian)
        IN  /\ b.error = "none"
            /\ IdsAndSizes(b.entries) = IdsAndSizes(a.entries)
            /\ HeaderOf(b.sections) = HeaderOf(a.sections)
            /\ DataBlob(output.bytes, endian) =
                   Flatten([i \in 1..Len(a.entries) |-> a.entries[i].data])
            /\ Tiles(a.entries, DataBlob(file, endian)) =>
                   DataBlob(output.bytes, endian) = DataBlob(file, endian)
            /\ b.trailing = a.trailing

\* a bank of two entries that tile its data, with trailing bytes, saved as is
C1_Witness ==
    /\ SavedOk
    /\ NothingQueued
    /\ Len(audio_entries) = 2
    /\ Tiles(audio_entries, DataBlob(file, endian))
    /\ trailing_data # <<>>
    /\ output.bytes = file

----------------------------------------------------------------------------
(* C2 *)

\* the payload the saved bank holds for the first entry with this id
SavedPayload(audio_id) ==
    LET b == LoadSoundbank(output.bytes, endian)
    IN  b.entries[FindAudioEntry(b.entries, audio_id)].data

SavedSize(audio_id) ==
    LET b == LoadSoundbank(output.bytes, endian)
    IN  b.entries[FindAudioEntry(b.entries, audio_id)].size

\* what the input bank holds for this id: the size bytes at offset of its
\* DATA payload
InputPayload(audio_id) ==
    LET ix == IndexOf(file, endian)
        i == CHOOSE i \in 1..Len(ix) :
                /\ ix[i][1] = audio_id
                /\ \A j \in 1..(i - 1) : ix[j][1] # audio_id
    IN  Slice(DataBlob(file, endian), ix[i][2], ix[i][3])

\* C2: in the saved bank the payload of each id is the bytes of the source
\* queued last for it, or the input's payload if none was queued, and the
\* size field of the entry is the length of that payload.
C2_ReplacementLaw ==
    SavedOk =>
        \A i \in 1..Len(audio_entries) :
            LET id == audio_entries[i].id
                first == FindAudioEntry(audio_entries, id)
                queued == audio_entries[first].replacement_path
                expected == IF queued # NoPath THEN Content(queued)
                            ELSE InputPayload(id)
            IN  /\ LoadSoundbank(output.bytes, endian).error = "none"
                /\ SavedPayload(id) = expected
                /\ SavedSize(id) = Len(expected)

----------------------------------------------------------------------------
(* C3 *)

\* C3: in a saved bank every offset field is the sum of the size fields
\* before it (so the first is 0), and the ids are in the input's order.
C3_OffsetPrefixSum ==
    SavedOk =>
        LET ix == IndexOf(output.bytes, endian)
            inp == IndexOf(file, endian)
        IN  /\ Len(ix) = Len(inp)
            /\ \A i \in 1..Len(ix) :
                  /\ ix[i][2] = SumSeq([j \in 1..(i - 1) |-> ix[j][3]])
                  /\ ix[i][1] = inp[i][1]

\* a saved bank of two entries whose input offsets were not the running
\* sums, with a replacement that changes the first entry's size
C3_Witness ==
    /\ SavedOk
    /\ Len(audio_entries) = 2
    /\ audio_entries[1].replacement_path = "a.wem"
    /\ audio_entries[2].offset # audio_entries[1].size
    /\ IndexOf(output.bytes, endian)[2][2] = Len(Content("a.wem"))

----------------------------------------------------------------------------
(* C4 *)

\* C4: in a saved bank the size fields of the index add up to the length of
\* the DATA payload.
C4_IndexDataConsistent ==
    SavedOk =>
        LET ix == IndexOf(output.bytes, endian)
        IN  SumSeq([j \in 1..Len(ix) |-> ix[j][3]])
                = Len(DataBlob(output.bytes, endian))

----------------------------------------------------------------------------
(* C7 *)

\* C7: when save raises, nothing has been written to the output.
C7_SaveAtomic ==
    (pc = "saved" /\ err # "none") => output.bytes = <<>>

----------------------------------------------------------------------------
(* C8 *)

UnknownId(audio_id) ==
    \A i \in 1..Len(audio_entries) : audio_entries[i].id # audio_id

\* C8: replace_audio for an id that is not in the index raises KeyError and
\* leaves the entries as they were, and a patch run in which that happened
\* writes no output bank.
C8_UnknownIdNoOutput ==
    [][/\ \A id \in AudioIds, p \in Paths :
            (ApiReplaceAudio(id, p) /\ UnknownId(id)) =>
                (err' = "KeyError" /\ audio_entries' = audio_entries)
       /\ \A id \in AudioIds, p \in Paths :
            (PatchReplace(id, p) /\ UnknownId(id) /\ Exists(fs, p)) =>
                ("KeyError" \in caught' /\ audio_entries' = audio_entries)
       /\ (caller = "patch" /\ "KeyError" \in caught) => ~output'.exists
      ]_vars

----------------------------------------------------------------------------
(* C9 *)

\* C9: after a bank is loaded every entry lies inside the DATA payload and
\* holds exactly its size bytes at its offset there.
C9_ParsedIndexInBounds ==
    pc = "loaded" =>
        \A i \in 1..Len(audio_entries) :
            LET en == audio_entries[i]
            IN  /\ en.offset + en.size <= data_size[1]
                /\ Len(en.data) = en.size
                /\ en.data = SubSeq(DataBlob(file, endian), en.offset + 1,
                                    en.offset + en.size)

----------------------------------------------------------------------------
(* C10 *)

\* C10: export_audio writes the payload parsed from the input bank for the
\* id, also when a replacement is queued for it, and changes no entry; for
\* an id that is not in the index it raises KeyError and writes nothing.
C10_ExportWritesOriginal ==
    [][\A id \in AudioIds :
          ApiExportAudio(id) =>
              LET loaded == LoadSoundbank(file, endian).entries
                  i == FindAudioEntry(loaded, id)
              IN  /\ audio_entries' = audio_entries
                  /\ output' = output
                  /\ IF i # 0
                     THEN sink' = FileOf(loaded[i].data) /\ err' = "none"
                     ELSE sink' = sink /\ err' = "KeyError"
      ]_vars

\* the sink holds the input's payload of an entry that has a replacement
\* queued, and the replacement's bytes are other bytes
C10_Witness ==
    /\ sink.exists
    /\ \E i \in 1..Len(audio_entries) :
          /\ audio_entries[i].replacement_path = "a.wem"
          /\ FindAudioEntry(audio_entries, audio_entries[i].id) = i
          /\ sink.bytes = audio_entries[i].data
          /\ sink.bytes = InputPayload(audio_entries[i].id)
          /\ sink.bytes # <<>>

----------------------------------------------------------------------------
(* C11 *)

\* the constructor has raised: one of the exceptions of _load_soundbank
LoadFailed ==
    pc = "exit" /\ err \in {"ValueError", "AttributeError", "struct.error"}

\* the constructor has returned a soundbank
Loaded == pc \in {"loaded", "stats", "saved"}

\* C11: a bank with a HIRC chunk between the header and the index is loaded:
\* its index and data are those of the chunks after HIRC and its trailing
\* bytes start right after the DATA chunk.
C11_HircRecognised ==
    \A t \in Trailings(endian) :
        file = HircFirstBank(t, endian) =>
            /\ ~LoadFailed
            /\ Loaded => /\ IdsAndSizes(audio_entries) = <<<<1, 1>>>>
                         /\ audio_entries[1].data = TilingData(1)
                         /\ trailing_data = t

----------------------------------------------------------------------------
(* C12 *)

\* the first chunk of the bank, after the envelope if there is one, is BKHD
FirstChunkIsBkhd(f) ==
    LET at == IF Slice(f, 0, 4) = TagBytes("AKBK") THEN 12 ELSE 0
    IN  Slice(f, at, 4) = TagBytes("BKHD")

\* C12: the patcher refuses a bank whose first chunk is not BKHD: the
\* constructor raises and no soundbank object comes out of it.
C12_BadHeaderPatcher ==
    ~FirstChunkIsBkhd(file) => (~Loaded /\ audio_entries = <<>>)

----------------------------------------------------------------------------
(* C13 *)

\* C13: a bank inside the AKBK envelope is loaded as the bank without the
\* envelope, and what save writes starts with the BKHD chunk.
C13_EnvelopeSkipped ==
    Slice(file, 0, 4) = TagBytes("AKBK") =>
        LET bare == LoadSoundbank(Slice(file, 12, Len(file)), endian)
        IN  /\ ~LoadFailed
            /\ Loaded => /\ HeaderOf(sections) = HeaderOf(bare.sections)
                         /\ audio_entries = bare.entries
                         /\ trailing_data = bare.trailing
            /\ SavedOk => Slice(output.bytes, 0, 4) = TagBytes("BKHD")

----------------------------------------------------------------------------
(* events_parser.py: BankParser.link_audio_to_events *)

\* Python's None in a field that otherwise holds an unsigned number
None == -1

\* the action type of a play action
PlayType == 1027

\* _link_sound_to_audio with the bug of not looking source_id up in
\* self.audio_files
LinkSoundToAudioMutNoIndexCheck(sound_id, audio_set, snds, files) ==
    IF sound_id \in DOMAIN snds
    THEN audio_set \cup {snds[sound_id].source_id}
    ELSE audio_set

\* _link_sound_to_audio: audio_set after the call
LinkSoundToAudio(sound_id, audio_set, snds, files) ==
    IF sound_id \in DOMAIN snds
    THEN IF snds[sound_id].source_id \in files
         THEN audio_set \cup {snds[sound_id].source_id}
         ELSE audio_set
    ELSE audio_set

PlaylistIds(container) ==
    [i \in 1..Len(container.playlist) |-> container.playlist[i].id]

\* _link_container_children: the ids its loop goes through
LinkContainerChildrenItems(conts, container_id) ==
    IF PlaylistIds(conts[container_id]) # <<>>
    THEN PlaylistIds(conts[container_id])
    ELSE conts[container_id].children

\* _link_recursive with the bug of taking the children first and the
\* playlist only when there are no children
LinkRecursiveItemsMutChildrenFirst(conts, obj_id) ==
    IF conts[obj_id].children # <<>>
    THEN conts[obj_id].children
    ELSE PlaylistIds(conts[obj_id])

\* _link_recursive, for a container: the ids its loop goes through
LinkRecursiveItems(conts, obj_id) ==
    IF PlaylistIds(conts[obj_id]) # <<>>
    THEN PlaylistIds(conts[obj_id])
    ELSE conts[obj_id].children

\* _process_event_reference with the bug of not testing action_type
ProcessEventReferenceMutAnyType(target_id, audio_set, acts, conts, snds, files) ==
    IF target_id \in DOMAIN acts
    THEN LET action == acts[target_id]
         IN  IF action.target_id # None
             THEN IF action.target_id \in DOMAIN conts
                  THEN [enter |-> <<action.target_id>>, linked |-> audio_set]
                  ELSE IF action.target_id \in DOMAIN snds
                  THEN [enter |-> <<>>,
                        linked |-> LinkSoundToAudio(action.target_id,
                                                    audio_set, snds, files)]
                  ELSE [enter |-> <<>>, linked |-> audio_set]
             ELSE [enter |-> <<>>, linked |-> audio_set]
    ELSE IF target_id \in DOMAIN conts
    THEN [enter |-> <<target_id>>, linked |-> audio_set]
    ELSE [enter |-> <<>>,
          linked |-> LinkSoundToAudio(target_id, audio_set, snds, files)]

\* _process_event_reference for one id of event.actions: the container whose
\* children it goes on to link (<<>> if none) and the ids it has linked
ProcessEventReference(target_id, audio_set, acts, conts, snds, files) ==
    IF target_id \in DOMAIN acts
    THEN LET action == acts[target_id]
         IN  IF action.action_type = PlayType /\ action.target_id # None
             THEN IF action.target_id \in DOMAIN conts
                  THEN [enter |-> <<action.target_id>>, linked |-> audio_set]
                  ELSE IF action.target_id \in DOMAIN snds
                  THEN [enter |-> <<>>,
                        linked |-> LinkSoundToAudio(action.target_id,
                                                    audio_set, snds, files)]
                  ELSE [enter |-> <<>>, linked |-> audio_set]
             ELSE [enter |-> <<>>, linked |-> audio_set]
    ELSE IF target_id \in DOMAIN conts
    THEN [enter |-> <<target_id>>, linked |-> audio_set]
    ELSE [enter |-> <<>>,
          linked |-> LinkSoundToAudio(target_id, audio_set, snds, files)]

\* The hierarchies.  Ids: 1 and 10 are actions, 2 and 3 containers, 4 and 5
\* sounds, 6 is the id of nothing; 7 and 9 are in the audio index, 8 is not.
IndexedIds == {7, 9}

Action(type, target) == [action_type |-> type, target_id |-> target]

ActionChoices ==
    {Action(PlayType, 2), Action(PlayType, 4), Action(PlayType, 6),
     Action(PlayType, 10), Action(PlayType, None), Action(1, 2),
     Action(None, None)}

Container(children, playlist) ==
    [children |-> children,
     playlist |-> [i \in 1..Len(playlist) |->
                      [id |-> playlist[i], weight |-> 100]]]

Container2Choices ==
    {Container(c, p) : c \in {<<>>, <<4>>, <<4, 3>>, <<2>>},
                       p \in {<<>>, <<5>>, <<3>>}}

Container3Choices ==
    {Container(c, p) : c \in {<<>>, <<5>>, <<2>>}, p \in {<<>>, <<4>>}}

SourceChoices == {7, 8, None}

EventActionChoices == {<<>>, <<1>>, <<2>>, <<4>>, <<6>>, <<1, 5>>}

Event(id, acts) == [id |-> id, actions |-> acts, audio_file_ids |-> <<>>]

\* the patcher's variables while the resolver runs
PatcherOff ==
    /\ caller = "none"
    /\ endian = "<"
    /\ file = <<>>
    /\ pc = "off"
    /\ sections = EmptyDict
    /\ audio_entries = <<>>
    /\ data_offset = NoAttr
    /\ data_size = NoAttr
    /\ trailing_data = <<>>
    /\ fs = [p \in Paths |-> "missing"]
    /\ output = NoFile
    /\ sink = NoFile
    /\ export_dir = EmptyDict
    /\ err = "none"
    /\ caught = {}

\* the state after BankParser.parse(): the tables are filled, nothing is linked
InitLink ==
    /\ \E a \in ActionChoices :
          actions = (1 :> a) @@ (10 :> Action(PlayType, 5))
    /\ \E c2 \in Container2Choices, c3 \in Container3Choices :
          containers = (2 :> c2) @@ (3 :> c3)
    /\ \E src \in SourceChoices :
          sounds = (4 :> [source_id |-> src]) @@ (5 :> [source_id |-> 9])
    /\ \E acts \in EventActionChoices :
          events = <<Event(100, acts), Event(101, <<5>>)>>
    /\ audio_files = IndexedIds
    /\ event_audio_map = EmptyDict
    /\ lpc = "ready"
    /\ ev = 0
    /\ targets = <<>>
    /\ linked = {}
    /\ stack = <<>>
    /\ PatcherOff
    /\ ParseOff

\* The depth of calls at which the interpreter raises RecursionError, scaled
\* to the model: deeper than any chain of distinct containers, so that only
\* a walk that comes back to a container reaches it.
RecursionLimit == Cardinality(DOMAIN containers) + 2

\* every order list(linked_audio_ids) may give
Orders(S) ==
    {q \in UNION {[1..n -> S] : n \in {Cardinality(S)}} :
        \A i, j \in 1..Len(q) : i # j => q[i] # q[j]}

\* link_audio_to_events: the loop over self.events takes the next event, or
\* returns after the last
NextEvent ==
    /\ lpc \in {"ready", "event"}
    /\ lpc = "event" => (targets = <<>> /\ stack = <<>>)
    /\ \E order \in Orders(linked) :
          /\ events' = IF lpc = "event"
                       THEN [events EXCEPT ![ev].audio_file_ids = order]
                       ELSE events
          /\ event_audio_map' =
                IF lpc = "event"
                THEN [k \in DOMAIN event_audio_map \cup {events[ev].id} |->
                        IF k = events[ev].id THEN order
                        ELSE event_audio_map[k]]
                ELSE event_audio_map
    /\ IF ev < Len(events)
       THEN /\ lpc' = "event"
            /\ ev' = ev + 1
            /\ targets' = events[ev + 1].actions
       ELSE /\ lpc' = "done"
            /\ UNCHANGED <<ev, targets>>
    /\ linked' = {}
    /\ UNCHANGED <<actions, sounds, containers, audio_files, stack>>
    /\ UNCHANGED <<pvars, hvars>>

\* the loop over event.actions: _process_event_reference(target_id, ...) up
\* to its call of _link_container_children
ProcessReference ==
    /\ lpc = "event"
    /\ stack = <<>>
    /\ targets # <<>>
    /\ LET r == ProcessEventReference(Head(targets), linked, actions,
                                      containers, sounds, audio_files)
       IN  /\ linked' = r.linked
           /\ stack' = IF r.enter = <<>> THEN stack
                       ELSE <<LinkContainerChildrenItems(containers,
                                                         r.enter[1])>>
    /\ targets' = Tail(targets)
    /\ UNCHANGED <<events, actions, sounds, containers, audio_files,
                   event_audio_map, lpc, ev>>
    /\ UNCHANGED <<pvars, hvars>>

\* one turn of the loop of the innermost call: _link_recursive(child_id, ...)
\* links a sound, calls itself for a container, or does nothing
LinkRecursive ==
    /\ lpc = "event"
    /\ stack # <<>>
    /\ stack[Len(stack)] # <<>>
    /\ LET obj_id == Head(stack[Len(stack)])
           rest == [stack EXCEPT ![Len(stack)] = Tail(@)]
       IN  IF obj_id \in DOMAIN sounds
           THEN /\ linked' = LinkSoundToAudio(obj_id, linked, sounds,
                                              audio_files)
                /\ stack' = rest
                /\ lpc' = lpc
           ELSE IF obj_id \in DOMAIN containers
           THEN IF Len(stack) >= RecursionLimit
                THEN \* RecursionError leaves link_audio_to_events
                     /\ lpc' = "raised"
                     /\ stack' = <<>>
                     /\ linked' = linked
                ELSE /\ stack' = Append(rest,
                                    LinkRecursiveItems(containers, obj_id))
                     /\ UNCHANGED <<lpc, linked>>
           ELSE /\ stack' = rest
                /\ UNCHANGED <<lpc, linked>>
    /\ UNCHANGED <<events, actions, sounds, containers, audio_files,
                   event_audio_map, ev, targets>>
    /\ UNCHANGED <<pvars, hvars>>

\* the loop of the innermost call is over: it returns
Return ==
    /\ lpc = "event"
    /\ stack # <<>>
    /\ stack[Len(stack)] = <<>>
    /\ stack' = SubSeq(stack, 1, Len(stack) - 1)
    /\ UNCHANGED <<events, actions, sounds, containers, audio_files,
                   event_audio_map, lpc, ev, targets, linked>>
    /\ UNCHANGED <<pvars, hvars>>

NextLink ==
    \/ NextEvent
    \/ ProcessReference
    \/ LinkRecursive
    \/ Return

SpecLink == InitLink /\ [][NextLink]_vars

----------------------------------------------------------------------------
(* C5 *)

\* C5: link_audio_to_events returns without raising, whatever the hierarchy.
C5_ResolverReturns == lpc # "raised"

----------------------------------------------------------------------------
(* C6 *)

Elems(q) == {q[i] : i \in 1..Len(q)}

\* C6: every id in an event's resolved list, and in event_audio_map, is an
\* id read from the audio index.
C6_ResolverSound ==
    /\ \A i \in 1..Len(events) : Elems(events[i].audio_file_ids) \subseteq audio_files
    /\ \A k \in DOMAIN event_audio_map :
          Elems(event_audio_map[k]) \subseteq audio_files

\* linking is over; the first event led to sound 4, whose source is not in
\* the index, and got nothing, and the second got the indexed source 9
C6_Witness ==
    /\ lpc = "done"
    /\ events[1].actions = <<4>>
    /\ sounds[4].source_id = 8
    /\ events[1].audio_file_ids = <<>>
    /\ events[2].audio_file_ids = <<9>>
    /\ event_audio_map[101] = <<9>>

----------------------------------------------------------------------------
(* What an id resolves to, read off the tables *)

\* the ids a container stands for: its playlist's, or its children if the
\* playlist is empty
ClaimedItems(c) ==
    IF c.playlist # <<>>
    THEN [i \in 1..Len(c.playlist) |-> c.playlist[i].id]
    ELSE c.children

\* the containers reached from those of S in at most n expansions
RECURSIVE ContainersReached(_, _)
ContainersReached(S, n) ==
    IF n = 0 THEN S
    ELSE ContainersReached(
            S \cup {x \in DOMAIN containers :
                      \E c \in S : x \in Elems(ClaimedItems(containers[c]))},
            n - 1)

\* the indexed source of a sound; nothing for any other id
SoundSource(id) ==
    IF id \in DOMAIN sounds
    THEN {sounds[id].source_id} \cap audio_files
    ELSE {}

\* the indexed sources of the sounds reached by expanding container c
SourcesReached(c) ==
    LET cs == ContainersReached({c}, Cardinality(DOMAIN containers))
    IN  UNION {SoundSource(x) : x \in
                 UNION {Elems(ClaimedItems(containers[k])) : k \in cs}}

\* an id under the dispatch of the event's own ids, n play actions deep
RECURSIVE ResolvesTo(_, _)
ResolvesTo(id, n) ==
    IF id \in DOMAIN actions
    THEN IF n > 0 /\ actions[id].action_type = PlayType
                  /\ actions[id].target_id # None
         THEN ResolvesTo(actions[id].target_id, n - 1)
         ELSE {}
    ELSE IF id \in DOMAIN containers
    THEN SourcesReached(id)
    ELSE SoundSource(id)

\* the target of a play action: a container or a sound, and nothing else
TargetResolvesTo(t) ==
    IF t \in DOMAIN containers THEN SourcesReached(t)
    ELSE SoundSource(t)

\* an id of event.actions, with the target of a play action so dispatched
IdResolvesTo(id) ==
    IF id \in DOMAIN actions
    THEN IF actions[id].action_type = PlayType /\ actions[id].target_id # None
         THEN TargetResolvesTo(actions[id].target_id)
         ELSE {}
    ELSE IF id \in DOMAIN containers
    THEN SourcesReached(id)
    ELSE SoundSource(id)

IsPlayWithTarget(id) ==
    /\ id \in DOMAIN actions
    /\ actions[id].action_type = PlayType
    /\ actions[id].target_id # None

----------------------------------------------------------------------------
(* C14 *)

\* C14 as stated: for a play action with a target among an event's ids, the
\* event's result holds all that the target resolves to under the dispatch
\* of the event's own ids, a target that is a play action included.
C14_PlayTargetFullDispatch ==
    lpc = "done" =>
        \A i \in 1..Len(events) : \A id \in Elems(events[i].actions) :
            IsPlayWithTarget(id) =>
                ResolvesTo(actions[id].target_id, Cardinality(DOMAIN actions))
                    \subseteq Elems(events[i].audio_file_ids)

\* C14 amended: the target of a play action is expanded if it is a
\* container and linked if it is a sound; a target that is an action or an
\* unknown id adds nothing.  So each event's result is what its ids resolve
\* to in this way, no more and no less.
C14_PlayTargetContainerOrSound ==
    lpc = "done" =>
        \A i \in 1..Len(events) :
            /\ Elems(events[i].audio_file_ids) =
                  UNION {IdResolvesTo(id) : id \in Elems(events[i].actions)}
            /\ event_audio_map[events[i].id] = events[i].audio_file_ids

\* linking is over; the first event's id is a play action whose target is a
\* container, and the event got the indexed source behind it
C14_Witness ==
    /\ lpc = "done"
    /\ events[1].actions = <<1>>
    /\ IsPlayWithTarget(1)
    /\ actions[1].target_id = 2
    /\ events[1].audio_file_ids # <<>>
    /\ Elems(events[1].audio_file_ids) = SourcesReached(2)

----------------------------------------------------------------------------
(* C15 *)

\* the container that a step of the resolver is about to expand
Expanding ==
    IF stack # <<>> THEN Head(stack[Len(stack)])
    ELSE IF Head(targets) \in DOMAIN actions
    THEN actions[Head(targets)].target_id
    ELSE Head(targets)

\* C15: every expansion of a container, at the top or nested, goes through
\* its playlist's ids if it has a playlist and through its children if not;
\* and when linking is over, an event with a play action on a container (or
\* with the container itself among its ids) holds the indexed sources of
\* the sounds so reached.
C15_PlaylistBeforeChildren ==
    [][/\ Len(stack') > Len(stack) =>
             stack'[Len(stack')] = ClaimedItems(containers[Expanding])
       /\ lpc' = "done" =>
             \A i \in 1..Len(events') :
                \A id \in Elems(events'[i].actions) :
                   LET c == IF IsPlayWithTarget(id)
                            THEN actions[id].target_id ELSE id
                   IN  c \in DOMAIN containers =>
                          SourcesReached(c)
                              \subseteq Elems(events'[i].audio_file_ids)
      ]_vars

\* linking is over; the first event plays container 2, whose playlist leads
\* to container 3, whose playlist leads to sound 4 and whose children lead
\* to sound 5: the event got the source of sound 4 only
C15_Witness ==
    /\ lpc = "done"
    /\ events[1].actions = <<1>>
    /\ actions[1] = Action(PlayType, 2)
    /\ containers[2] = Container(<<4>>, <<3>>)
    /\ containers[3] = Container(<<5>>, <<4>>)
    /\ sounds[4].source_id = 7
    /\ events[1].audio_file_ids = <<7>>

----------------------------------------------------------------------------
(* events_parser.py: BankParser.parse, the readers *)

Max(a, b) == IF a > b THEN a ELSE b

\* struct.unpack_from("<I", d, pos)[0], for pos + 4 <= len(d)
U32At(d, pos) == UnpackU32("<", SubSeq(d, pos + 1, pos + 4))

\* struct.unpack_from("<H", d, pos)[0], for pos + 2 <= len(d)
U16At(d, pos) == d[pos + 1] + 256 * d[pos + 2]

\* A cursor: pos is where the parser stands, hi is the end of the furthest
\* read it has made or tried (0 before any), error is the exception a read
\* has raised.
Cursor(pos) == [pos |-> pos, hi |-> 0, error |-> "none"]

\* the one value of a set of one value; Once({F(x) : x \in {e}}) is F(e)
\* with e worked out a single time
Once(S) == CHOOSE x \in S : TRUE

\* a read of n bytes at c.pos that moves on: unpack_from raises struct.error
\* and data[pos] raises IndexError when the bytes are not in the buffer
ReadAt(d, c, n, exc) ==
    IF c.error # "none" THEN c
    ELSE IF c.pos + n > Len(d)
    THEN [c EXCEPT !.hi = Max(@, c.pos + n), !.error = exc]
    ELSE [c EXCEPT !.pos = @ + n, !.hi = Max(@, c.pos + n)]

Read(d, c, n, exc) == Once({ReadAt(d, x, n, exc) : x \in {c}})

\* pos += n without a read
SkipAt(c, n) == IF c.error # "none" THEN c ELSE [c EXCEPT !.pos = @ + n]

Skip(c, n) == Once({SkipAt(x, n) : x \in {c}})

\* _read_varint from pos: value, bytes_read, and IndexError off the end
RECURSIVE ReadVarint(_, _, _, _)
ReadVarint(d, pos, value, bytes_read) ==
    IF pos + 1 > Len(d)
    THEN [value |-> value, bytes_read |-> bytes_read + 1,
          error |-> "IndexError"]
    ELSE LET byte == d[pos + 1]
             v == value * 128 + (byte % 128)
         IN  IF byte >= 128
             THEN ReadVarint(d, pos + 1, v, bytes_read + 1)
             ELSE [value |-> v, bytes_read |-> bytes_read + 1,
                   error |-> "none"]

\* _read_object_header
ReadObjectHeader(d, pos, v) ==
    IF v <= 48
    THEN LET c == Read(d, Read(d, Cursor(pos), 4, "struct.error"), 4,
                       "struct.error")
         IN  IF c.error # "none"
             THEN [obj_type |-> 0, obj_size |-> 0, pos |-> pos,
                   error |-> c.error]
             ELSE [obj_type |-> U32At(d, pos), obj_size |-> U32At(d, pos + 4),
                   pos |-> pos + 8, error |-> "none"]
    ELSE LET c == Read(d, Read(d, Cursor(pos), 1, "IndexError"), 4,
                       "struct.error")
         IN  IF c.error # "none"
             THEN [obj_type |-> 0, obj_size |-> 0, pos |-> pos,
                   error |-> c.error]
             ELSE [obj_type |-> d[pos + 1], obj_size |-> U32At(d, pos + 1),
                   pos |-> pos + 5, error |-> "none"]

\* What an object parser gives: obj is <<the object>> or <<>> for None, hi
\* the end of the furthest read, error the exception raised.
Parsed(obj, c) == [obj |-> obj, hi |-> c.hi, error |-> c.error]

\* _parse_event: nothing in it looks at size.  Of the action ids, fit is
\* how many lie in the buffer; the read after them raises.
ParseEvent(d, pos, size, v) ==
    LET c1 == Read(d, Cursor(pos), 4, "struct.error")
        vi == ReadVarint(d, pos + 4, 0, 0)
        c2 == IF v <= 122 THEN Read(d, c1, 4, "struct.error")
              ELSE IF c1.error # "none" THEN c1
              ELSE [pos |-> c1.pos + vi.bytes_read,
                    hi |-> c1.pos + vi.bytes_read, error |-> vi.error]
        action_count == IF v <= 122 THEN U32At(d, pos + 4) ELSE vi.value
        fit == (Len(d) - c2.pos) \div 4
        c3 == IF c2.error # "none" THEN c2
              ELSE IF action_count > fit
              THEN [c2 EXCEPT !.hi = c2.pos + 4 * (fit + 1),
                              !.error = "struct.error"]
              ELSE [c2 EXCEPT !.pos = @ + 4 * action_count,
                              !.hi = @ + 4 * action_count]
    IN  IF c3.error # "none" THEN Parsed(<<>>, c3)
        ELSE Parsed(<<[id |-> U32At(d, pos),
                       actions |-> [i \in 1..action_count |->
                                      U32At(d, c2.pos + (i - 1) * 4)],
                       audio_file_ids |-> <<>>]>>, c3)

\* _parse_action
ParseAction(d, pos, size) ==
    IF pos + 4 > Len(d) THEN Parsed(<<>>, Cursor(pos))
    ELSE LET c1 == Read(d, Cursor(pos), 4, "struct.error")
             hasType == c1.pos + 2 <= pos + size
             c2 == IF hasType THEN Read(d, c1, 2, "struct.error") ELSE c1
             hasTarget == c2.error = "none" /\ c2.pos + 4 <= pos + size
             c3 == IF hasTarget THEN Read(d, c2, 4, "struct.error") ELSE c2
         IN  IF c3.error # "none" THEN Parsed(<<>>, c3)
             ELSE Parsed(<<[action_id |-> U32At(d, pos),
                            action_type |-> IF hasType THEN U16At(d, c1.pos)
                                            ELSE None,
                            target_id |-> IF hasTarget THEN U32At(d, c2.pos)
                                          ELSE None]>>, c3)

\* _parse_sound asking for 13 bytes after the id before it reads the source
ParseSoundMutThirteenAfterId(d, pos, size) ==
    IF pos + 4 > Len(d) THEN Parsed(<<>>, Cursor(pos))
    ELSE LET c1 == Read(d, Cursor(pos), 4, "struct.error")
             c2 == Skip(Skip(c1, 4), 1)
             c3 == Read(d, c2, 4, "struct.error")
             sound_id == U32At(d, pos)
         IN  IF c1.pos + 13 > pos + size
             THEN Parsed(<<[sound_id |-> sound_id, source_id |-> None]>>, c1)
             ELSE IF c3.error # "none" THEN Parsed(<<>>, c3)
             ELSE Parsed(<<[sound_id |-> sound_id,
                            source_id |-> U32At(d, c2.pos)]>>, c3)

\* _parse_sound
ParseSound(d, pos, size) ==
    IF pos + 4 > Len(d) THEN Parsed(<<>>, Cursor(pos))
    ELSE LET c1 == Read(d, Cursor(pos), 4, "struct.error")
             c2 == Skip(Skip(c1, 4), 1)
             c3 == Read(d, c2, 4, "struct.error")
             sound_id == U32At(d, pos)
         IN  IF c1.pos + 8 > pos + size
             THEN Parsed(<<[sound_id |-> sound_id, source_id |-> None]>>, c1)
             ELSE IF c2.pos + 4 > pos + size
             THEN Parsed(<<[sound_id |-> sound_id, source_id |-> None]>>, c1)
             ELSE IF c3.error # "none" THEN Parsed(<<>>, c3)
             ELSE Parsed(<<[sound_id |-> sound_id,
                            source_id |-> U32At(d, c2.pos)]>>, c3)

\* _parse_loop_counts from cursor c
LoopCountsAt(d, c, end_pos, v) ==
    IF c.error # "none" \/ c.pos + 2 > end_pos THEN c
    ELSE IF v <= 72 \/ ReadAt(d, c, 2, "struct.error").error # "none"
              \/ c.pos + 2 + 4 > end_pos
    THEN ReadAt(d, c, 2, "struct.error")
    ELSE SkipAt(ReadAt(d, c, 2, "struct.error"), 4)

\* _parse_loop_counts
ParseLoopCounts(d, c, end_pos, v) ==
    Once({LoopCountsAt(d, x, end_pos, v) : x \in {c}})

\* _parse_transition_times from cursor c: three values of 4 bytes
TransitionTimesAt(d, c, end_pos) ==
    IF c.error # "none" \/ c.pos + 12 > end_pos THEN c
    ELSE Read(d, Read(d, Read(d, c, 4, "struct.error"), 4, "struct.error"),
              4, "struct.error")

\* _parse_transition_times
ParseTransitionTimes(d, c, end_pos, v) ==
    Once({TransitionTimesAt(d, x, end_pos) : x \in {c}})

\* _parse_avoid_repeat_count from cursor c
AvoidRepeatCountAt(d, c, end_pos) ==
    IF c.error # "none" \/ c.pos + 2 > end_pos THEN c
    ELSE ReadAt(d, c, 2, "struct.error")

\* _parse_avoid_repeat_count
ParseAvoidRepeatCount(d, c, end_pos) ==
    Once({AvoidRepeatCountAt(d, x, end_pos) : x \in {c}})

\* the flags of _parse_modes_and_flags from c1, the cursor after the modes
FlagsAt(d, c1, end_pos, v) ==
    IF c1.error # "none" THEN c1
    ELSE IF v <= 89
    THEN IF c1.pos + 5 <= end_pos
         THEN Read(d, Read(d, Read(d, Read(d, Read(d, c1,
                   1, "IndexError"), 1, "IndexError"),
                   1, "IndexError"), 1, "IndexError"),
                   1, "IndexError")
         ELSE c1
    ELSE IF c1.pos + 1 > end_pos THEN c1
    ELSE ReadAt(d, c1, 1, "IndexError")

\* _parse_modes_and_flags from cursor c
ModesAndFlagsAt(d, c, end_pos, v) ==
    IF c.error # "none" \/ c.pos + 3 > end_pos THEN c
    ELSE Once({FlagsAt(d, c1, end_pos, v) :
                 c1 \in {Read(d, Read(d, Read(d, c, 1, "IndexError"), 1,
                                      "IndexError"), 1, "IndexError")}})

\* _parse_modes_and_flags
ParseModesAndFlags(d, c, end_pos, v) ==
    Once({ModesAndFlagsAt(d, x, end_pos, v) : x \in {c}})

\* the loop of _parse_children from child i on, left turns to go
RECURSIVE ParseChildrenFrom(_, _, _, _, _)
ParseChildrenFrom(d, c, end_pos, left, children) ==
    IF left = 0 \/ c.error # "none" \/ c.pos + 4 > end_pos
    THEN [list |-> children, cursor |-> c]
    ELSE Once({ParseChildrenFrom(d, c1, end_pos, left - 1, grown) :
                 c1 \in {ReadAt(d, c, 4, "struct.error")},
                 grown \in {IF c.pos + 4 <= Len(d)
                            THEN Append(children, U32At(d, c.pos))
                            ELSE children}})

\* _parse_children
ParseChildren(d, pos, end_pos) ==
    IF pos + 4 > end_pos THEN [list |-> <<>>, cursor |-> Cursor(pos)]
    ELSE LET c1 == ReadAt(d, Cursor(pos), 4, "struct.error")
         IN  IF c1.error # "none" THEN [list |-> <<>>, cursor |-> c1]
             ELSE Once({ParseChildrenFrom(d, x, end_pos, n, <<>>) :
                          x \in {c1}, n \in {U32At(d, pos)}})

\* the loop of _parse_playlist
RECURSIVE ParsePlaylistFrom(_, _, _, _, _, _)
ParsePlaylistFrom(d, c, end_pos, v, left, items) ==
    IF left = 0 \/ c.error # "none" \/ c.pos + 4 > end_pos
    THEN [list |-> items, cursor |-> c]
    ELSE LET c1 == ReadAt(d, c, 4, "struct.error")
             wide == IF v <= 56 THEN 1 ELSE 4
             c2 == ReadAt(d, c1, wide,
                          IF v <= 56 THEN "IndexError" ELSE "struct.error")
         IN  IF c1.error # "none" \/ c1.pos + wide > end_pos
             THEN [list |-> items, cursor |-> c1]
             ELSE IF c2.error # "none"
             THEN [list |-> items, cursor |-> c2]
             ELSE Once({ParsePlaylistFrom(d, x, end_pos, v, left - 1, grown) :
                          x \in {c2},
                          grown \in {Append(items,
                             [id |-> U32At(d, c.pos),
                              weight |-> IF v <= 56 THEN d[c1.pos + 1]
                                         ELSE U32At(d, c1.pos)])}})

\* _parse_playlist
ParsePlaylist(d, pos, end_pos, v) ==
    LET wide == IF v <= 38 THEN 4 ELSE 2
    IN  IF pos + wide > end_pos THEN [list |-> <<>>, cursor |-> Cursor(pos)]
        ELSE LET c1 == ReadAt(d, Cursor(pos), wide, "struct.error")
             IN  IF c1.error # "none" THEN [list |-> <<>>, cursor |-> c1]
                 ELSE Once({ParsePlaylistFrom(d, x, end_pos, v, n, <<>>) :
                              x \in {c1},
                              n \in {IF v <= 38 THEN U32At(d, pos)
                                     ELSE U16At(d, pos)}})

\* _parse_container up to the children: the cursor where the children start
ContainerPrefix(d, pos, size, v) ==
    LET c1 == Read(d, Cursor(pos), 4, "struct.error")
        c2 == ParseLoopCounts(d, c1, pos + size, v)
        c3 == ParseTransitionTimes(d, c2, pos + size, v)
        c4 == ParseAvoidRepeatCount(d, c3, pos + size)
        c5 == ParseModesAndFlags(d, c4, pos + size, v)
    IN  IF size > 84 THEN Skip(c5, size - 84) ELSE c5

\* _parse_container once the children ch and the playlist pl are parsed
ContainerOf(d, pos, c, ch, pl) ==
    LET hi == Max(c.hi, Max(ch.cursor.hi, pl.cursor.hi))
    IN  IF ch.cursor.error # "none"
        THEN Parsed(<<>>, [ch.cursor EXCEPT !.hi = Max(@, c.hi)])
        ELSE IF pl.cursor.error # "none"
        THEN Parsed(<<>>, [pl.cursor EXCEPT !.hi = Max(@, hi)])
        ELSE Parsed(<<[id |-> U32At(d, pos),
                       children |-> ch.list,
                       playlist |-> pl.list]>>,
                    [pos |-> pl.cursor.pos, hi |-> hi, error |-> "none"])

\* _parse_container from c, the cursor where the children start: the
\* playlist is parsed at current_pos + 8 + 4 * len(children)
ContainerFrom(d, pos, size, v, c) ==
    IF c.error # "none" THEN Parsed(<<>>, c)
    ELSE Once({Once({ContainerOf(d, pos, c, ch, pl) :
                       pl \in {ParsePlaylist(d, c.pos + 8 + 4 * Len(ch.list),
                                             pos + size, v)}}) :
                 ch \in {ParseChildren(d, c.pos, pos + size)}})

\* _parse_container.  Of the Container it builds, id, children and playlist
\* are kept.
ParseContainer(d, pos, size, v) ==
    IF pos + 4 > Len(d) THEN Parsed(<<>>, Cursor(pos))
    ELSE Once({ContainerFrom(d, pos, size, v, c) :
                 c \in {ContainerPrefix(d, pos, size, v)}})

\* the loop of _parse_didx: the ids it adds, and the exception
RECURSIVE ParseDidxFrom(_, _, _, _, _)
ParseDidxFrom(d, pos, end_pos, left, ids) ==
    IF left = 0 \/ pos + 12 > end_pos
    THEN [ids |-> ids, error |-> "none"]
    ELSE IF pos + 4 > Len(d)
    THEN [ids |-> ids, error |-> "struct.error"]
    ELSE ParseDidxFrom(d, pos + 12, end_pos, left - 1,
                       ids \cup {U32At(d, pos)})

\* _parse_didx
ParseDidx(d, pos, size) == ParseDidxFrom(d, pos, pos + size, size \div 12, {})

\* _parse_bkhd: the position after the header chunk, the version, the
\* exception
ParseBkhd(d) ==
    LET pos == IF Slice(d, 0, 4) = TagBytes("AKBK") THEN 12 ELSE 0
    IN  IF Slice(d, pos, 4) # TagBytes("BKHD")
        THEN [pos |-> pos, version |-> 0, error |-> "ValueError"]
        ELSE IF pos + 12 > Len(d)
        THEN [pos |-> pos, version |-> 0, error |-> "struct.error"]
        ELSE [pos |-> pos + 8 + U32At(d, pos + 4),
              version |-> U32At(d, pos + 8), error |-> "none"]

\* _read_chunk_header: chunk_id is <<>> for None
ReadChunkHeader(d, pos) ==
    IF pos + 8 > Len(d)
    THEN [chunk_id |-> <<>>, chunk_size |-> 0, pos |-> Len(d)]
    ELSE [chunk_id |-> Slice(d, pos, 4), chunk_size |-> U32At(d, pos + 4),
          pos |-> pos + 8]

----------------------------------------------------------------------------
(* The banks BankParser.parse is given *)

MaxRecords == 2     \* object records in a HIRC chunk

\* one version on each side of the layout's branch points 38, 48 .. 122
Versions == {38, 72, 140}

LE32(v) == PackU32("<", v)

LE16(v) == <<v % 256, v \div 256>>

Take(b, n) == SubSeq(b, 1, n)

\* a Sound: id 4, four bytes, one byte, source 7, four more bytes; cut to n
\* bytes after the id
SoundPayload(n) ==
    Take(LE32(4) \o <<1, 2, 3, 4>> \o <<5>> \o LE32(7) \o <<0, 0, 0, 0>>,
         4 + n)

\* the numbers of bytes after the id: around the two tests of _parse_sound
SoundSizes == {0, 7, 8, 9, 12, 13}

\* an Action: id 1, type 1027, target 2; cut to n bytes
ActionPayload(n) == Take(LE32(1) \o LE16(1027) \o LE32(2), n)

ActionSizes == {2, 4, 6, 10}

\* an Event: id 100, the count of its actions as the version writes it (in
\* two bytes when long is set and the count is a varint), the action ids
EventPayload(v, acts, long) ==
    LE32(100)
        \o (IF v <= 122 THEN LE32(Len(acts))
            ELSE IF long THEN <<128, Len(acts)>> ELSE <<Len(acts)>>)
        \o Flatten([i \in 1..Len(acts) |-> LE32(acts[i])])

\* the field groups of a Container before its children
ContainerFields(v) ==
    LE32(2)
        \o (IF v <= 72 THEN <<1, 0>> ELSE <<1, 0, 0, 0, 0, 0>>)
        \o <<0, 0, 0, 0, 0, 0, 0, 0, 0, 0, 0, 0>>
        \o <<0, 0>>
        \o <<0, 0, 0>>
        \o (IF v <= 89 THEN <<1, 0, 0, 0, 0>> ELSE <<1>>)

\* the children, gap bytes of something else, the playlist
ContainerLists(v, children, gap, playlist) ==
    LE32(Len(children))
        \o Flatten([i \in 1..Len(children) |-> LE32(children[i])])
        \o [i \in 1..gap |-> 0]
        \o (IF v <= 38 THEN LE32(Len(playlist)) ELSE LE16(Len(playlist)))
        \o Flatten([i \in 1..Len(playlist) |->
              LE32(playlist[i])
                  \o (IF v <= 56 THEN <<100>> ELSE LE32(100))])

ContainerPayload(v, children, gap, playlist) ==
    ContainerFields(v) \o ContainerLists(v, children, gap, playlist)

\* a Container of 86 bytes: the parser skips 86 - 84 bytes after the fields
BigContainerPayload(v, children, gap, playlist) ==
    LET lists == ContainerLists(v, children, gap, playlist)
        fields == ContainerFields(v)
    IN  fields \o <<0, 0>> \o lists
            \o [i \in 1..(84 - Len(fields) - Len(lists)) |-> 0]

ChildrenChoices == {<<>>, <<4>>, <<4, 3>>}

PlaylistChoices == {<<>>, <<5>>}

\* bytes between the children and the playlist: none, or four
Gaps == {0, 4}

\* the records under study, as <<type, payload>>
Subjects(v) ==
    {<<2, SoundPayload(n)>> : n \in SoundSizes}
        \cup {<<2, <<4, 0>>>>}
        \cup {<<3, ActionPayload(n)>> : n \in ActionSizes}
        \cup {<<4, EventPayload(v, a, l)>> :
                a \in {<<>>, <<1>>}, l \in BOOLEAN}
        \cup {<<4, LE32(100)>>}
        \cup {<<5, ContainerPayload(v, c, g, p)>> :
                c \in ChildrenChoices, g \in Gaps, p \in PlaylistChoices}
        \cup {<<5, BigContainerPayload(v, <<4>>, g, <<5>>)>> : g \in Gaps}
        \cup {<<5, Take(ContainerFields(v), 10)>>}
        \cup {<<7, <<9, 9, 9>>>>}

\* the record around them: a Sound of id 5 and source 9
Filler == <<2, LE32(5) \o <<1, 2, 3, 4>> \o <<5>> \o LE32(9)>>

\* a record with its header
RecordBytes(v, r) ==
    (IF v <= 48 THEN LE32(r[1]) ELSE <<r[1]>>) \o LE32(Len(r[2])) \o r[2]

HircOf(v, count, recs) ==
    Chunk("HIRC",
          LE32(count) \o Flatten([i \in 1..Len(recs) |->
                                     RecordBytes(v, recs[i])]), "<")

HeaderOfVersion(v) == Chunk("BKHD", LE32(v), "<")

\* the index of the audio ids 7 and 9, and their data
IndexChunk == Chunk("DIDX", LE32(7) \o LE32(0) \o LE32(1)
                               \o LE32(9) \o LE32(1) \o LE32(1), "<")

DataChunk == Chunk("DATA", <<61, 62>>, "<")

\* BKHD | DIDX | HIRC | DATA with record r at place k among n records
HierarchyBank(v, n, k, r) ==
    HeaderOfVersion(v) \o IndexChunk
        \o HircOf(v, n, [i \in 1..n |-> IF i = k THEN r ELSE Filler])
        \o DataChunk

\* a bank that ends n bytes before the end of its only record r
CutBank(v, r, n) ==
    LET whole == HeaderOfVersion(v) \o HircOf(v, 1, <<r>>)
    IN  Take(whole, Len(whole) - n)

\* banks whose framing is off
OddHierarchyBanks(v) ==
    {CutBank(v, <<2, SoundPayload(13)>>, 11),
     CutBank(v, <<2, SoundPayload(13)>>, 15),
     CutBank(v, <<3, ActionPayload(10)>>, 2),
     CutBank(v, <<5, ContainerPayload(v, <<4>>, 4, <<5>>)>>, 3),
     AkbkEnvelope \o HierarchyBank(v, 1, 1, Filler),
     IndexChunk \o HircOf(v, 1, <<Filler>>),
     Take(HeaderOfVersion(v), 6),
     Take(HeaderOfVersion(v), 10),
     HeaderOfVersion(v) \o HircOf(v, 2, <<Filler>>) \o DataChunk,
     HeaderOfVersion(v) \o HircOf(v, 2, <<Filler>>),
     HeaderOfVersion(v) \o TagBytes("HIRC") \o LE32(0),
     HeaderOfVersion(v) \o HircOf(v, 0, <<>>) \o <<1, 2, 3>>,
     HeaderOfVersion(v) \o TagBytes("DIDX") \o LE32(24) \o LE32(7)
         \o LE32(0) \o LE32(1)}

ParseInputs ==
    UNION {{HierarchyBank(v, n, k, r) :
              n \in 1..MaxRecords, k \in 1..MaxRecords, r \in Subjects(v)}
           \cup OddHierarchyBanks(v) : v \in Versions}

----------------------------------------------------------------------------
(* BankParser.parse as a state machine *)

\* BankParser(filename): the tables are empty, the file is any of the banks
InitParse ==
    /\ hdata \in ParseInputs
    /\ version = 0
    /\ ppc = "start"
    /\ ppos = 0
    /\ hend = 0
    /\ hleft = 0
    /\ perr = "none"
    /\ hrec = <<>>
    /\ LinkOff
    /\ PatcherOff

\* what parse leaves alone when it does not touch the tables
TablesUnchanged ==
    UNCHANGED <<events, actions, sounds, containers, audio_files>>

ResolverIdle == UNCHANGED <<event_audio_map, lpc, ev, targets, linked, stack>>

\* an exception leaves parse
Raise(exc) ==
    /\ ppc' = "raised"
    /\ perr' = exc

\* pos = self._parse_bkhd(data, 0)
ParseHeader ==
    /\ ppc = "start"
    /\ LET b == ParseBkhd(hdata)
       IN  IF b.error # "none"
           THEN /\ Raise(b.error)
                /\ UNCHANGED <<version, ppos>>
           ELSE /\ version' = b.version
                /\ ppos' = b.pos
                /\ ppc' = "chunks"
                /\ perr' = perr
    /\ TablesUnchanged
    /\ ResolverIdle
    /\ UNCHANGED <<hdata, hend, hleft, hrec, pvars>>

\* while pos < len(data) is over
ParseReturns ==
    /\ ppc = "chunks"
    /\ ppos >= Len(hdata)
    /\ ppc' = "returned"
    /\ TablesUnchanged
    /\ ResolverIdle
    /\ UNCHANGED <<hdata, version, ppos, hend, hleft, perr, hrec, pvars>>

\* a chunk that is neither HIRC nor DIDX, or too short a rest for a header
SkipChunk ==
    /\ ppc = "chunks"
    /\ ppos < Len(hdata)
    /\ LET h == ReadChunkHeader(hdata, ppos)
       IN  /\ h.chunk_id \notin {TagBytes("HIRC"), TagBytes("DIDX")}
           /\ ppos' = h.pos + h.chunk_size
    /\ TablesUnchanged
    /\ ResolverIdle
    /\ UNCHANGED <<hdata, version, ppc, hend, hleft, perr, hrec, pvars>>

\* pos = self._parse_didx(data, pos, chunk_size)
ParseDidxChunk ==
    /\ ppc = "chunks"
    /\ ppos < Len(hdata)
    /\ LET h == ReadChunkHeader(hdata, ppos)
           r == ParseDidx(hdata, h.pos, h.chunk_size)
       IN  /\ h.chunk_id = TagBytes("DIDX")
           /\ audio_files' = audio_files \cup r.ids
           /\ IF r.error # "none"
              THEN /\ Raise(r.error)
                   /\ ppos' = ppos
              ELSE /\ ppos' = h.pos + h.chunk_size
                   /\ UNCHANGED <<ppc, perr>>
    /\ UNCHANGED <<events, actions, sounds, containers>>
    /\ ResolverIdle
    /\ UNCHANGED <<hdata, version, hend, hleft, hrec, pvars>>

\* _parse_hirc up to its loop: end_pos and num_objects
EnterHirc ==
    /\ ppc = "chunks"
    /\ ppos < Len(hdata)
    /\ LET h == ReadChunkHeader(hdata, ppos)
       IN  /\ h.chunk_id = TagBytes("HIRC")
           /\ IF h.pos + 4 > Len(hdata)
              THEN /\ Raise("struct.error")
                   /\ UNCHANGED <<ppos, hend, hleft>>
              ELSE /\ hend' = h.pos + h.chunk_size
                   /\ hleft' = U32At(hdata, h.pos)
                   /\ ppos' = h.pos + 4
                   /\ ppc' = "hirc"
                   /\ perr' = perr
    /\ TablesUnchanged
    /\ ResolverIdle
    /\ UNCHANGED <<hdata, version, hrec, pvars>>

\* the inner parser of an object type; the types without one parse to nothing
ParseByType(d, obj_type, pos, size, v) ==
    CASE obj_type = 4 -> ParseEvent(d, pos, size, v)
      [] obj_type = 3 -> ParseAction(d, pos, size)
      [] obj_type = 2 -> ParseSound(d, pos, size)
      [] obj_type = 5 -> ParseContainer(d, pos, size, v)
      [] OTHER -> Parsed(<<>>, Cursor(pos))

\* one turn of the loop of _parse_hirc.  hrec keeps what the turn did: the
\* type, the payload's start and declared size, the end of the furthest read
\* of the inner parser, its exception, its object.
ParseObject ==
    /\ ppc = "hirc"
    /\ hleft > 0
    /\ \E h \in {ReadObjectHeader(hdata, ppos, version)} :
       \E p \in {ParseByType(hdata, h.obj_type, h.pos, h.obj_size, version)} :
          LET o == p.obj[1]
              pos == h.pos + h.obj_size
          IN  IF h.error # "none"
              THEN /\ Raise(h.error)
                   /\ TablesUnchanged
                   /\ UNCHANGED <<ppos, hleft, hrec>>
              ELSE /\ hrec' = <<[type |-> h.obj_type, start |-> h.pos,
                                 size |-> h.obj_size, hi |-> p.hi,
                                 error |-> p.error, obj |-> p.obj]>>
                   /\ IF p.error # "none"
                      THEN /\ Raise(p.error)
                           /\ TablesUnchanged
                           /\ UNCHANGED <<ppos, hleft>>
                      ELSE /\ events' = IF h.obj_type = 4
                                        THEN Append(events, o) ELSE events
                           /\ actions' =
                                 IF h.obj_type = 3 /\ p.obj # <<>>
                                 THEN (o.action_id :>
                                         Action(o.action_type, o.target_id))
                                      @@ actions
                                 ELSE actions
                           /\ sounds' =
                                 IF h.obj_type = 2 /\ p.obj # <<>>
                                 THEN (o.sound_id :>
                                         [source_id |-> o.source_id])
                                      @@ sounds
                                 ELSE sounds
                           /\ containers' =
                                 IF h.obj_type = 5 /\ p.obj # <<>>
                                 THEN (o.id :> [children |-> o.children,
                                                playlist |-> o.playlist])
                                      @@ containers
                                 ELSE containers
                           /\ audio_files' = audio_files
                           /\ perr' = perr
                           /\ IF pos > hend
                              THEN /\ ppos' = hend
                                   /\ ppc' = "chunks"
                                   /\ hleft' = hleft
                              ELSE /\ ppos' = pos
                                   /\ ppc' = ppc
                                   /\ hleft' = hleft - 1
    /\ ResolverIdle
    /\ UNCHANGED <<hdata, version, hend, pvars>>

\* the loop of _parse_hirc is over: return end_pos
LeaveHirc ==
    /\ ppc = "hirc"
    /\ hleft = 0
    /\ ppos' = hend
    /\ ppc' = "chunks"
    /\ TablesUnchanged
    /\ ResolverIdle
    /\ UNCHANGED <<hdata, version, hend, hleft, perr, hrec, pvars>>

NextParse ==
    \/ ParseHeader
    \/ ParseReturns
    \/ SkipChunk
    \/ ParseDidxChunk
    \/ EnterHirc
    \/ ParseObject
    \/ LeaveHirc

SpecParse == InitParse /\ [][NextParse]_vars

----------------------------------------------------------------------------
(* C16 *)

\* the record of the last turn of the loop of _parse_hirc
LastRecord == hrec[1]

\* C16: a container record that holds k children and, right after the last
\* child id, a playlist of m items parses to exactly those children and
\* those items.
C16_PlaylistFollowsChildren ==
    \A c \in ChildrenChoices, p \in PlaylistChoices :
        (/\ Len(hrec) = 1
         /\ LastRecord.type = 5
         /\ Slice(hdata, LastRecord.start, LastRecord.size)
               = ContainerPayload(version, c, 0, p))
        => /\ LastRecord.error = "none"
           /\ LastRecord.obj = <<[id |-> 2, children |-> c,
                                  playlist |-> Container(c, p).playlist]>>

----------------------------------------------------------------------------
(* C17 *)

\* C17: for every record whose declared payload lies in the buffer, the
\* inner parser reads only bytes inside that payload, raises nothing, and
\* while the loop goes on the next header is read at payload start +
\* declared size.
C17_StreamNeverDesynchronises ==
    (Len(hrec) = 1 /\ LastRecord.start + LastRecord.size <= Len(hdata)) =>
        /\ LastRecord.hi <= LastRecord.start + LastRecord.size
        /\ LastRecord.error = "none"
        /\ ppc = "hirc" => ppos = LastRecord.start + LastRecord.size

----------------------------------------------------------------------------
(* C18 *)

\* the Sound of the last record, when it is one
LastSound == LastRecord.obj[1]

\* C18 as the specification words it: the Sound has a source only with at
\* least 13 bytes after its 4-byte id, and none with fewer.
C18_SourceNeedsThirteenAfterId ==
    (Len(hrec) = 1 /\ LastRecord.type = 2 /\ LastRecord.obj # <<>>) =>
        /\ LastSound.source_id # None => LastRecord.size - 4 >= 13
        /\ LastRecord.size - 4 < 13 => LastSound.source_id = None

\* C18: a Sound record whose 4-byte id is in the buffer and whose payload
\* is shorter than 13 bytes in all (9 after the id) is emitted with source
\* none; a Sound that is emitted from a payload of at least 13 bytes has as
\* its source the u32 after the id, 4 bytes and 1 byte; the table of sounds
\* holds the Sound under its id.
C18_SourceNeedsNineAfterId ==
    (Len(hrec) = 1 /\ LastRecord.type = 2) =>
        /\ (LastRecord.size - 4 < 9
              /\ LastRecord.start + 4 <= Len(hdata))
           => /\ LastRecord.error = "none"
              /\ LastRecord.obj # <<>>
              /\ LastSound.source_id = None
        /\ (LastRecord.size - 4 >= 9 /\ LastRecord.obj # <<>>)
           => /\ LastSound.source_id = U32At(hdata, LastRecord.start + 9)
              /\ LastSound.source_id # None
        /\ LastRecord.obj # <<>>
           => /\ LastSound.sound_id = U32At(hdata, LastRecord.start)
              /\ LastSound.sound_id \in DOMAIN sounds
              /\ sounds[LastSound.sound_id].source_id = LastSound.source_id

\* a Sound of 9 bytes after its id was parsed, and its source is 7
C18_Witness ==
    /\ Len(hrec) = 1
    /\ LastRecord.type = 2
    /\ LastRecord.size = 4 + 9
    /\ LastRecord.obj # <<>>
    /\ LastSound.sound_id = 4
    /\ LastSound.source_id = 7

----------------------------------------------------------------------------
(* C19 *)

\* every entry of the loaded bank lies inside its DATA payload
EntriesInBounds ==
    \A i \in 1..Len(audio_entries) :
        /\ data_size # NoAttr
        /\ audio_entries[i].offset + audio_entries[i].size <= data_size[1]

\* C19: a bank whose entries lie inside its DATA payload was saved with
\* nothing queued; loading the output and saving again gives the output,
\* byte for byte.
C19_SaveIdempotent ==
    (SavedOk /\ NothingQueued /\ EntriesInBounds) =>
        LET b == LoadSoundbank(output.bytes, endian)
            again == Save(b.sections, b.entries, b.trailing, fs, endian)
        IN  /\ b.error = "none"
            /\ again.error = "none"
            /\ again.bytes = output.bytes

\* a bank of two entries in bounds that do not tile its data was saved as
\* is: the output is not the input
C19_Witness ==
    /\ SavedOk
    /\ NothingQueued
    /\ EntriesInBounds
    /\ Len(audio_entries) = 2
    /\ ~Tiles(audio_entries, DataBlob(file, endian))
    /\ output.bytes # file

=============================================================================
